---- MODULE Spec2Model ----
(***************************************************************************)
(* Simulated Annealing for the 0/1 knapsack problem                        *)
(* (src/SimulatedAnnealing.py, class SimulatedAnnealing).                  *)
(*                                                                         *)
(* Conventions.                                                            *)
(*  - Python lists are sequences; item i of the code (0-based) is position *)
(*    i+1 here.                                                            *)
(*  - The temperature, cooling_rate and T_min are Python floats.  They are *)
(*    modelled on a binary grid of Scale units per 1.0: the integer t      *)
(*    stands for the float t/Scale, and every float operation (sqrt, *, +, *)
(*    /) rounds its exact result to the nearest grid value, ties to even,  *)
(*    as IEEE-754 does on its own (finer) grid.                            *)
(*  - Lists are sequences held by value.  The only writes into a list are  *)
(*    neighbor[i] = ... in generate_neighbors; NeighborAliases names the   *)
(*    other names bound to the list written, and the write reaches them.   *)
(*  - random.random() returns 0.0 (draw 0) or exp(-j/2) (draw j >= 1), so  *)
(*    that "u < exp(x)" is decided exactly: -ln(u) = j/2.                  *)
(***************************************************************************)
EXTENDS Integers, Sequences, FiniteSets, TLC

\* ------------------------------------------------------------- bounds
MaxItems == 2        \* instances of items sized 1..2 have 0..MaxItems items
MaxVal == 2          \* profits and weights of two-item instances: 0..MaxVal
MaxCap == 3          \* capacities: 0..MaxCap
WideItems == 14      \* items of the wide instance (first n with k = 2)
Scale == 4           \* grid units per 1.0 of a float
MaxDraw == 2         \* random.random() draws 0.0 or exp(-j/2), j \in 1..MaxDraw

\* ---------------------------------------------------------- constants
NeighborPct == 15    \* int(amount * 0.15)
ExpUnderflow == 745  \* math.exp(x) = 0.0 below x = -745.13...

VARIABLES
    pc,                     \* position of run() / generate_neighbors()
    err,                    \* the exception that ended the run, or "none"
    cfg,                    \* cooling_rate, iter_max, T_min, no_improve_limit
    file,                   \* the instance file read_file() will load
    capacity, amount, profit, weight, neighbors_amount,
    temperature,
    best_solution, best_cost, no_improve_count,
    solution, cost, iter,   \* locals of run(): working point, inner counter
    neighbors, idx,         \* run(): the neighborhood and the loop position
    caller, arg,            \* generate_neighbors(): who called, its argument
    nbs, neighbor, nweight, \* generate_neighbors(): neighbors, neighbor, weight
    removals,               \* repair removals done on the current neighbor
    best_solutions_vector, best_cost_vector,
    rng_used,               \* the random module has been called
    chk                     \* the check_acceptance call of the last step

vars == <<pc, err, cfg, file, capacity, amount, profit, weight,
          neighbors_amount, temperature, best_solution, best_cost,
          no_improve_count, solution, cost, iter, neighbors, idx, caller,
          arg, nbs, neighbor, nweight, removals, best_solutions_vector,
          best_cost_vector, rng_used, chk>>

\* ------------------------------------------------------------ helpers
Max(a, b) == IF a >= b THEN a ELSE b

\* a / b rounded to the nearest integer, ties to even (a >= 0, b > 0)
RoundDiv(a, b) ==
    LET q == a \div b
        r == a % b
    IN  IF 2 * r < b THEN q
        ELSE IF 2 * r > b THEN q + 1
        ELSE IF q % 2 = 0 THEN q ELSE q + 1

\* sqrt(x) rounded to the nearest integer (x >= 0)
RoundSqrt(x) ==
    CHOOSE r \in 0..x :
        /\ 4 * x < (2 * r + 1) * (2 * r + 1)
        /\ r = 0 \/ (2 * r - 1) * (2 * r - 1) <= 4 * x

\* math.sqrt on the grid: sqrt(t/Scale) = sqrt(t*Scale)/Scale
FloatSqrt(t) == RoundSqrt(t * Scale)

\* float * float on the grid
FloatMul(a, b) == RoundDiv(a * b, Scale)

\* float / float on the grid (b # 0)
FloatDiv(a, b) == RoundDiv(a * Scale, b)

RECURSIVE SumTo(_, _)
\* sum(f[i] for i in range(n))
SumTo(f, n) == IF n = 0 THEN 0 ELSE SumTo(f, n - 1) + f[n]

\* sum(neighbor[i] * self.weight[i] for i in range(len(neighbor)))
SolutionWeight(s) == SumTo([i \in 1..Len(s) |-> s[i] * weight[i]], Len(s))

\* calculate_cost summing the weights of the selected items instead
calculate_cost_weights(s) ==
    SumTo([i \in 1..Len(s) |-> s[i] * weight[i]], Len(s))

\* calculate_cost: sum(solution[i] * self.profit[i] ...)
calculate_cost(s) == SumTo([i \in 1..Len(s) |-> s[i] * profit[i]], Len(s))

\* calculate_number_of_neighbors: max(1, int(amount * 0.15))
calculate_number_of_neighbors(n) == Max(1, (n * NeighborPct) \div 100)

\* ------------------------------------------------ inputs of one run
\* Problem instances a file can hold (profit and weight of equal length):
\* up to two items with every profit and weight in 0..MaxVal ...
ValueInstances ==
    UNION {{[capacity |-> c, profit |-> p, weight |-> w] :
               c \in 0..MaxCap, p \in [1..n -> 0..MaxVal],
               w \in [1..n -> 0..MaxVal]} : n \in 0..2}

\* ... up to MaxItems items with every profit and weight in 1..2 ...
ItemInstances ==
    UNION {{[capacity |-> c, profit |-> p, weight |-> w] :
               c \in 0..MaxCap, p \in [1..n -> 1..2],
               w \in [1..n -> 1..2]} : n \in 0..MaxItems}

\* ... and one instance with WideItems items, so that neighbors_amount = 2:
\* only item 0 fits the knapsack (weight 1, profit 1); the others weigh 2.
WideInstance ==
    [capacity |-> 1,
     profit |-> [i \in 1..WideItems |-> IF i = 1 THEN 1 ELSE 0],
     weight |-> [i \in 1..WideItems |-> IF i = 1 THEN 1 ELSE 2]]

\* An instance whose greedy solution [1,0,0] (cost 1) is two improvements
\* away from the optimum: [0,0,1] costs 2 and [0,1,0] costs 3.
StagedInstance ==
    [capacity |-> 3, profit |-> <<1, 3, 2>>, weight |-> <<1, 3, 3>>]

Instances ==
    ValueInstances \cup ItemInstances \cup {WideInstance, StagedInstance}

\* __init__'s parameters.  cooling_rate and T_min are floats, in grid units.
\* __init__ stores whatever it is given: values <= 0 are not rejected.
\* The default here: cooling_rate 1.0, T_min one grid unit.
DefaultConfig ==
    [cooling_rate |-> Scale, iter_max |-> 2, T_min |-> 1,
     no_improve_limit |-> 2]

\* The smallest positive cooling_rate of the grid.
SlowConfig == [DefaultConfig EXCEPT !.cooling_rate = 1]

\* A large cooling_rate and a longer inner loop.
FastConfig == [DefaultConfig EXCEPT !.cooling_rate = 3 * Scale, !.iter_max = 3]

Configs ==
    {DefaultConfig, SlowConfig, FastConfig,
     [DefaultConfig EXCEPT !.cooling_rate = 0],
     [DefaultConfig EXCEPT !.T_min = 0],
     [DefaultConfig EXCEPT !.no_improve_limit = 0]}

\* The configurations the specification calls valid (section 6).
ValidConfig(c) ==
    /\ c.cooling_rate > 0
    /\ c.T_min > 0
    /\ c.iter_max >= 1
    /\ c.no_improve_limit >= 1

\* random.random(): a float in [0, 1): 0.0, or exp(-j/2) for the draw j >= 1
Draws == 0..MaxDraw

\* An attribute or local that holds no value yet (None, or unbound): a list,
\* a number, a name.  The states are told apart by pc, never by these.
None == <<>>
NoNumber == -1
NoCaller == "None"

NoCheck ==
    [called |-> FALSE, cost |-> 0, new_cost |-> 0, temperature |-> 0,
     drew |-> FALSE, u |-> 0, result |-> "none"]

\* -------------------------------------------- generate_initial_solution
\* profit[i] / weight[i] < profit[j] / weight[j]  (weights > 0)
RatioLess(i, j) == profit[i] * weight[j] < profit[j] * weight[i]

\* A descending sort that puts x ahead of the items of equal key
InsertItem_unstable(items, x) ==
    LET pos == Cardinality({k \in 1..Len(items) : RatioLess(x, items[k])})
    IN  SubSeq(items, 1, pos) \o <<x>> \o SubSeq(items, pos + 1, Len(items))

\* sorted(..., reverse=True) is stable: x, the item of largest index so far,
\* goes behind every item whose key is >= its own.
InsertItem(items, x) ==
    LET pos == Cardinality({k \in 1..Len(items) : ~RatioLess(items[k], x)})
    IN  SubSeq(items, 1, pos) \o <<x>> \o SubSeq(items, pos + 1, Len(items))

RECURSIVE SortedItems(_)
\* sorted(range(n), key=lambda i: profit[i] / weight[i], reverse=True)
SortedItems(n) ==
    IF n = 0 THEN <<>> ELSE InsertItem(SortedItems(n - 1), n)

RECURSIVE GreedyFill(_, _, _, _)
\* for i in items: if weight + self.weight[i] <= self.capacity: ...
GreedyFill(items, k, sol, w) ==
    IF k > Len(items) THEN sol
    ELSE LET i == items[k]
         IN  IF w + weight[i] <= capacity
             THEN GreedyFill(items, k + 1, [sol EXCEPT ![i] = 1], w + weight[i])
             ELSE GreedyFill(items, k + 1, sol, w)

\* profit[i] / weight[i] raises ZeroDivisionError for an item of weight 0
RatioRaises == \E i \in 1..amount : weight[i] = 0

generate_initial_solution ==
    GreedyFill(SortedItems(amount), 1, [i \in 1..amount |-> 0], 0)

\* ------------------------------------------------------------- actions
\* The object after __init__, before run(), for a configuration of cs and
\* an instance file of fs.
InitWith(cs, fs) ==
    /\ pc = "read_file"
    /\ err = "none"
    /\ cfg \in cs
    /\ file \in fs
    /\ capacity = NoNumber /\ amount = NoNumber
    /\ profit = None /\ weight = None
    /\ neighbors_amount = 0
    /\ temperature = NoNumber
    /\ best_solution = None /\ best_cost = NoNumber
    /\ no_improve_count = NoNumber
    /\ solution = None /\ cost = NoNumber /\ iter = NoNumber
    /\ neighbors = None /\ idx = NoNumber
    /\ caller = NoCaller /\ arg = None
    /\ nbs = None
    /\ neighbor = None /\ nweight = NoNumber /\ removals = NoNumber
    /\ best_solutions_vector = <<>>
    /\ best_cost_vector = <<>>
    /\ rng_used = FALSE
    /\ chk = NoCheck

Init == InitWith(Configs, Instances)

\* run(): read_file() and calculate_number_of_neighbors(self.amount)
ReadFile ==
    /\ pc = "read_file"
    /\ capacity' = file.capacity
    /\ profit' = file.profit
    /\ weight' = file.weight
    /\ amount' = Len(file.profit)
    /\ neighbors_amount' = calculate_number_of_neighbors(Len(file.profit))
    /\ pc' = "generate_initial_solution"
    /\ UNCHANGED <<err, cfg, file, temperature, best_solution, best_cost,
                   no_improve_count, solution, cost, iter, neighbors, idx,
                   caller, arg, nbs, neighbor, nweight, removals,
                   best_solutions_vector, best_cost_vector, rng_used, chk>>

\* run(): best_solution = self.generate_initial_solution()
GenerateInitialSolution ==
    /\ pc = "generate_initial_solution"
    /\ IF RatioRaises
       THEN /\ pc' = "raised"
            /\ err' = "ZeroDivisionError"
            /\ UNCHANGED best_solution
       ELSE /\ pc' = "initial_temperature"
            /\ best_solution' = generate_initial_solution
            /\ UNCHANGED err
    /\ UNCHANGED <<cfg, file, capacity, amount, profit, weight,
                   neighbors_amount, temperature, best_cost,
                   no_improve_count, solution, cost, iter, neighbors, idx,
                   caller, arg, nbs, neighbor, nweight, removals,
                   best_solutions_vector, best_cost_vector, rng_used, chk>>

UNCHANGED_instance ==
    UNCHANGED <<cfg, file, capacity, amount, profit, weight, neighbors_amount>>

UNCHANGED_trace == UNCHANGED <<best_solutions_vector, best_cost_vector>>

UNCHANGED_gen == UNCHANGED <<caller, arg, nbs, neighbor, nweight, removals>>

UNCHANGED_run ==
    UNCHANGED <<temperature, best_solution, best_cost, no_improve_count,
                solution, cost, iter, neighbors, idx>>

\* ---------------------------------------------------- generate_neighbors
\* indices_1 = [i for i in range(len(neighbor)) if neighbor[i] == 1]
indices_1(nb) == {i \in 1..Len(nb) : nb[i] = 1}

\* neighbor[i] = 1 - neighbor[i]
Flip(s, i) == [s EXCEPT ![i] = 1 - s[i]]

\* a removal that leaves the item selected
Deselect_kept(nb, i) == nb

\* neighbor[i] = 0
Deselect(nb, i) == [nb EXCEPT ![i] = 0]

\* A repair loop that stops one unit of weight too early
RepairContinues_lax(nb, w) == w > capacity + 1 /\ indices_1(nb) # {}

\* while weight > self.capacity: ... if not indices_1: break
RepairContinues(nb, w) == w > capacity /\ indices_1(nb) # {}

\* "neighbor = solution": the neighbor is the argument itself, which the
\* caller holds as best_solution (initial_temperature) or solution (run)
NeighborAliases_no_copy ==
    {"arg"} \cup (IF caller = "run" THEN {"solution"}
                  ELSE IF caller = "initial_temperature"
                       THEN {"best_solution"} ELSE {})

\* neighbor = solution[:] is a new list: no other name is bound to it.  The
\* names, among arg, solution and best_solution, bound to the list that
\* neighbor[i] = ... writes to.
NeighborAliases == {}

\* The value of the list called name after neighbor[i] = ... turned the
\* neighbor into new.
AfterWrite(name, old, new) == IF name \in NeighborAliases THEN new ELSE old

\* initial_temperature(): neighbors = self.generate_neighbors(solution)
CallFromInitialTemperature ==
    /\ pc = "initial_temperature"
    /\ caller' = "initial_temperature"
    /\ arg' = best_solution
    /\ nbs' = <<>>
    /\ pc' = "gen_for"
    /\ chk' = NoCheck
    /\ UNCHANGED <<err, neighbor, nweight, removals, rng_used>>
    /\ UNCHANGED_instance /\ UNCHANGED_run /\ UNCHANGED_trace

\* generate_neighbors(): one turn of "for _ in range(self.neighbors_amount)"
\* up to the while: copy, random.randint(0, len - 1), flip, weigh.
GenFlip ==
    /\ pc = "gen_for"
    /\ Len(nbs) < neighbors_amount
    /\ rng_used' = TRUE
    /\ chk' = NoCheck
    /\ IF Len(arg) = 0
       THEN \* random.randint(0, -1): ValueError, empty range
            /\ pc' = "raised"
            /\ err' = "ValueError"
            /\ UNCHANGED <<neighbor, nweight, removals, arg, solution,
                           best_solution>>
       ELSE \E i \in 1..Len(arg) :
            /\ neighbor' = Flip(arg, i)
            /\ arg' = AfterWrite("arg", arg, Flip(arg, i))
            /\ solution' = AfterWrite("solution", solution, Flip(arg, i))
            /\ best_solution' =
                   AfterWrite("best_solution", best_solution, Flip(arg, i))
            /\ nweight' = SolutionWeight(Flip(arg, i))
            /\ removals' = 0
            /\ pc' = "gen_while"
            /\ UNCHANGED err
    /\ UNCHANGED <<caller, nbs, temperature, best_cost, no_improve_count,
                   cost, iter, neighbors, idx>>
    /\ UNCHANGED_instance /\ UNCHANGED_trace

\* generate_neighbors(): one test of "while weight > self.capacity" and
\* either one removal (random.choice) or neighbors.append(neighbor).
GenRepair ==
    /\ pc = "gen_while"
    /\ chk' = NoCheck
    /\ IF RepairContinues(neighbor, nweight)
       THEN \E i \in indices_1(neighbor) :
            /\ neighbor' = Deselect(neighbor, i)
            /\ arg' = AfterWrite("arg", arg, Deselect(neighbor, i))
            /\ solution' =
                   AfterWrite("solution", solution, Deselect(neighbor, i))
            /\ best_solution' =
                   AfterWrite("best_solution", best_solution,
                              Deselect(neighbor, i))
            /\ nweight' = nweight - weight[i]
            /\ removals' = removals + 1
            /\ rng_used' = TRUE
            /\ UNCHANGED <<pc, nbs>>
       ELSE /\ nbs' = Append(nbs, neighbor)
            /\ pc' = "gen_for"
            /\ UNCHANGED <<neighbor, nweight, removals, rng_used, arg,
                           solution, best_solution>>
    /\ UNCHANGED <<err, caller, temperature, best_cost, no_improve_count,
                   cost, iter, neighbors, idx>>
    /\ UNCHANGED_instance /\ UNCHANGED_trace

\* neighbors_cost = [self.calculate_cost(neighbor) for neighbor in neighbors]
neighbors_cost(ns) == [k \in 1..Len(ns) |-> calculate_cost(ns[k])]

\* sum(neighbors_cost) / len(neighbors_cost) if neighbors_cost else 1
initial_temperature(ns) ==
    IF Len(ns) > 0
    THEN RoundDiv(SumTo(neighbors_cost(ns), Len(ns)) * Scale, Len(ns))
    ELSE Scale

\* generate_neighbors() returns to initial_temperature(); run() goes on with
\* best_cost = self.calculate_cost(best_solution) and no_improve_count = 0.
ReturnToInitialTemperature ==
    /\ pc = "gen_for"
    /\ Len(nbs) = neighbors_amount
    /\ caller = "initial_temperature"
    /\ temperature' = initial_temperature(nbs)
    /\ best_cost' = calculate_cost(best_solution)
    /\ no_improve_count' = 0
    /\ pc' = "while"
    /\ chk' = NoCheck
    /\ UNCHANGED <<err, best_solution, solution, cost, iter, neighbors, idx,
                   rng_used>>
    /\ UNCHANGED_instance /\ UNCHANGED_gen /\ UNCHANGED_trace

\* generate_neighbors() returns to the inner loop of run()
ReturnToRun ==
    /\ pc = "gen_for"
    /\ Len(nbs) = neighbors_amount
    /\ caller = "run"
    /\ neighbors' = nbs
    /\ idx' = 1
    /\ pc' = "for_neighbor"
    /\ chk' = NoCheck
    /\ UNCHANGED <<err, temperature, best_solution, best_cost,
                   no_improve_count, solution, cost, iter, rng_used>>
    /\ UNCHANGED_instance /\ UNCHANGED_gen /\ UNCHANGED_trace

\* ------------------------------------------------------ check_acceptance
\* random.random() < math.exp((new_cost - cost) / self.temperature), for
\* new_cost <= cost and temperature t > 0.  The draw u stands for 0.0 (u = 0)
\* or exp(-u/2): 0.0 is below every exp(x) that does not underflow, and
\* exp(-u/2) < exp(x) iff -u/2 < x.
DrawBelowExp(u, c, nc, t) ==
    IF u = 0
    THEN (c - nc) * Scale <= ExpUnderflow * t
    ELSE 2 * (c - nc) * Scale < u * t

\* check_acceptance without the shortcut for strict improvements
check_acceptance_always_draws(c, nc, t, u) ==
    IF t = 0
    THEN [result |-> "ZeroDivisionError", drew |-> FALSE]
    ELSE [result |-> IF nc > c \/ DrawBelowExp(u, c, nc, t)
                     THEN "True" ELSE "False",
          drew |-> TRUE]

\* check_acceptance(cost, new_cost) at temperature t when random.random()
\* would return the draw u: the result, and whether the draw was made.
check_acceptance(c, nc, t, u) ==
    IF nc > c
    THEN [result |-> "True", drew |-> FALSE]
    ELSE IF t = 0
         THEN [result |-> "ZeroDivisionError", drew |-> FALSE]
         ELSE [result |-> IF DrawBelowExp(u, c, nc, t) THEN "True" ELSE "False",
               drew |-> TRUE]

\* --------------------------------------------------------------- cooling
\* self.temperature /= (1 + self.cooling_rate * math.sqrt(self.temperature))
cooling(t, rate) == FloatDiv(t, Scale + FloatMul(rate, FloatSqrt(t)))

\* ------------------------------------------------------------------- run
\* "if cost >= best_cost"
Improves_or_ties(c, best) == c >= best

\* "if cost < best_cost": the test of a minimisation
Improves_minimizing(c, best) == c < best

\* if cost > best_cost
Improves(c, best) == c > best

\* the loop test with the temperature comparison turned round
WhileCondition_reversed ==
    temperature < cfg.T_min /\ no_improve_count < cfg.no_improve_limit

\* while self.temperature > self.T_min and no_improve_count < limit
WhileCondition ==
    temperature > cfg.T_min /\ no_improve_count < cfg.no_improve_limit

\* a pass that goes on from where the previous pass ended
RestartPoint_continue ==
    IF cost = NoNumber
    THEN [solution |-> best_solution, cost |-> best_cost]
    ELSE [solution |-> solution, cost |-> cost]

\* solution = best_solution[:]; cost = best_cost
RestartPoint == [solution |-> best_solution, cost |-> best_cost]

\* run(): the test at the top of the outer loop; a new pass starts from
\* solution = best_solution[:], cost = best_cost, or run() returns.
While ==
    /\ pc = "while"
    /\ chk' = NoCheck
    /\ IF WhileCondition
       THEN /\ solution' = RestartPoint.solution
            /\ cost' = RestartPoint.cost
            /\ iter' = 0
            /\ pc' = "for_iter"
       ELSE /\ pc' = "returned"
            /\ UNCHANGED <<solution, cost, iter>>
    /\ UNCHANGED <<err, temperature, best_solution, best_cost,
                   no_improve_count, neighbors, idx, rng_used>>
    /\ UNCHANGED_instance /\ UNCHANGED_gen /\ UNCHANGED_trace

\* run(): "for _ in range(self.iter_max)": the next inner iteration calls
\* self.generate_neighbors(solution), or the pass is over.
ForIter ==
    /\ pc = "for_iter"
    /\ chk' = NoCheck
    /\ IF iter < cfg.iter_max
       THEN /\ caller' = "run"
            /\ arg' = solution
            /\ nbs' = <<>>
            /\ pc' = "gen_for"
       ELSE /\ pc' = "while"
            /\ UNCHANGED <<caller, arg, nbs>>
    /\ UNCHANGED <<err, neighbor, nweight, removals, rng_used>>
    /\ UNCHANGED_instance /\ UNCHANGED_run /\ UNCHANGED_trace

\* a counter that is not advanced
CountMove_skipped(n) == n

\* no_improve_count += 1
CountMove(n) == n + 1

\* run(): "for neighbor in neighbors": evaluate the next neighbor, apply
\* check_acceptance, move the working point and update the best.
ForNeighbor ==
    /\ pc = "for_neighbor"
    /\ IF idx <= Len(neighbors)
       THEN \E u \in Draws :
            LET nb == neighbors[idx]
                new_cost == calculate_cost(nb)
                r == check_acceptance(cost, new_cost, temperature, u)
            IN  /\ chk' = [called |-> TRUE, cost |-> cost,
                           new_cost |-> new_cost, temperature |-> temperature,
                           drew |-> r.drew, u |-> IF r.drew THEN u ELSE 0,
                           result |-> r.result]
                /\ rng_used' = (rng_used \/ r.drew)
                /\ IF r.result = "ZeroDivisionError"
                   THEN /\ pc' = "raised"
                        /\ err' = "ZeroDivisionError"
                        /\ UNCHANGED <<solution, cost, best_solution, best_cost,
                                       no_improve_count, idx>>
                        /\ UNCHANGED_trace
                   ELSE /\ idx' = idx + 1
                        /\ UNCHANGED <<pc, err>>
                        /\ IF r.result = "True"
                           THEN /\ solution' = nb
                                /\ cost' = new_cost
                                /\ IF Improves(new_cost, best_cost)
                                   THEN /\ best_solution' = nb
                                        /\ best_cost' = new_cost
                                        /\ best_solutions_vector' =
                                             Append(best_solutions_vector, nb)
                                        /\ best_cost_vector' =
                                             Append(best_cost_vector, new_cost)
                                        /\ no_improve_count' = 0
                                   ELSE /\ no_improve_count' =
                                             CountMove(no_improve_count)
                                        /\ UNCHANGED <<best_solution, best_cost>>
                                        /\ UNCHANGED_trace
                           ELSE /\ UNCHANGED <<solution, cost, best_solution,
                                               best_cost, no_improve_count>>
                                /\ UNCHANGED_trace
       ELSE /\ pc' = "cooling"
            /\ chk' = NoCheck
            /\ UNCHANGED <<err, solution, cost, best_solution, best_cost,
                           no_improve_count, idx, rng_used>>
            /\ UNCHANGED_trace
    /\ UNCHANGED <<temperature, iter, neighbors>>
    /\ UNCHANGED_instance /\ UNCHANGED_gen

\* run(): self.cooling() at the end of an inner iteration
Cooling ==
    /\ pc = "cooling"
    /\ temperature' = cooling(temperature, cfg.cooling_rate)
    /\ iter' = iter + 1
    /\ pc' = "for_iter"
    /\ chk' = NoCheck
    /\ UNCHANGED <<err, best_solution, best_cost, no_improve_count, solution,
                   cost, neighbors, idx, rng_used>>
    /\ UNCHANGED_instance /\ UNCHANGED_gen /\ UNCHANGED_trace

Next ==
    \/ ReadFile
    \/ GenerateInitialSolution
    \/ CallFromInitialTemperature
    \/ GenFlip
    \/ GenRepair
    \/ ReturnToInitialTemperature
    \/ ReturnToRun
    \/ While
    \/ ForIter
    \/ ForNeighbor
    \/ Cooling

Spec == Init /\ [][Next]_vars

\* ------------------------------- generate_initial_solution on its own
\* The scenario of the specification (section 8).
ScenarioInstance ==
    [capacity |-> 10, profit |-> <<60, 100, 120>>, weight |-> <<10, 20, 30>>]

\* Every instance of up to MaxItems + 1 items with values in 0..MaxVal, and
\* the scenario.
GreedyInit ==
    \/ \E n \in 0..(MaxItems + 1), c \in 0..MaxCap :
           \E p \in [1..n -> 0..MaxVal], w \in [1..n -> 0..MaxVal] :
               InitWith({DefaultConfig},
                        {[capacity |-> c, profit |-> p, weight |-> w]})
    \/ InitWith({DefaultConfig}, {ScenarioInstance})

\* run() up to the return of generate_initial_solution()
GreedyNext == ReadFile \/ GenerateInitialSolution

GreedySpec == GreedyInit /\ [][GreedyNext]_vars

\* ------------------------------------- generate_neighbors on its own
\* A loaded instance of fs on which generate_neighbors is about to be called.
HarnessInit(fs) ==
    /\ pc = "gen_for"
    /\ err = "none"
    /\ cfg = DefaultConfig
    /\ file \in fs
    /\ capacity = file.capacity
    /\ profit = file.profit
    /\ weight = file.weight
    /\ amount = Len(file.profit)
    /\ neighbors_amount = calculate_number_of_neighbors(Len(file.profit))
    /\ temperature = NoNumber
    /\ best_solution = None /\ best_cost = NoNumber
    /\ no_improve_count = NoNumber
    /\ solution = None /\ cost = NoNumber /\ iter = NoNumber
    /\ neighbors = None /\ idx = NoNumber
    /\ caller = "harness"
    /\ nbs = <<>>
    /\ neighbor = None /\ nweight = NoNumber /\ removals = NoNumber
    /\ best_solutions_vector = <<>>
    /\ best_cost_vector = <<>>
    /\ rng_used = FALSE
    /\ chk = NoCheck

\* generate_neighbors(arg) called on a loaded instance with any feasible
\* solution arg.
NbrInit ==
    /\ HarnessInit(Instances)
    /\ arg \in {s \in [1..amount -> {0, 1}] : SolutionWeight(s) <= capacity}

\* return neighbors
ReturnToHarness ==
    /\ pc = "gen_for"
    /\ Len(nbs) = neighbors_amount
    /\ caller = "harness"
    /\ pc' = "gen_returned"
    /\ UNCHANGED <<err, rng_used, chk>>
    /\ UNCHANGED_instance /\ UNCHANGED_run /\ UNCHANGED_gen /\ UNCHANGED_trace

NbrNext == GenFlip \/ GenRepair \/ ReturnToHarness

NbrSpec == NbrInit /\ [][NbrNext]_vars

\* generate_neighbors(arg) called with any 0/1 list arg of length amount,
\* feasible or not.
RepairInit ==
    /\ HarnessInit(ValueInstances \cup ItemInstances)
    /\ arg \in [1..amount -> {0, 1}]

RepairSpec == RepairInit /\ [][NbrNext]_vars

\* ------------------------------------------- runs that cannot crash
\* A valid configuration whose temperature never reaches 0 and an instance
\* with one or two items, none of weight 0; a sequential program takes its
\* next step when it has one.
LiveInstances ==
    {f \in Instances :
        /\ Len(f.profit) \in 1..2
        /\ \A i \in 1..Len(f.weight) : f.weight[i] >= 1}

LiveInit == InitWith({DefaultConfig, SlowConfig}, LiveInstances)

LiveSpec == LiveInit /\ [][Next]_vars /\ WF_vars(Next)

\* ----------------------------------------------- what a state holds
\* generate_initial_solution() has returned: best_solution is bound
InitialSolutionBuilt ==
    /\ pc \notin {"read_file", "generate_initial_solution"}
    /\ pc = "raised" => caller # NoCaller

\* run() has bound best_cost, no_improve_count and self.temperature
SearchStateCreated ==
    \/ pc \in {"while", "for_iter", "for_neighbor", "cooling", "returned"}
    \/ pc \in {"gen_for", "gen_while", "raised"} /\ caller = "run"

\* run() has bound the working solution and cost
WorkingPointSet ==
    pc \in {"for_iter", "for_neighbor", "cooling"} \/ caller = "run"

RECURSIVE SetSum(_, _)
\* the sum of f[x] over x in S
SetSum(f, S) ==
    IF S = {} THEN 0
    ELSE LET x == CHOOSE y \in S : TRUE
         IN  f[x] + SetSum(f, S \ {x})

Selected(s) == {i \in 1..Len(s) : s[i] = 1}

\* the weight and the profit of the items a solution selects, for the
\* instance of the file
WeightOf(s) == SetSum(file.weight, Selected(s))
ProfitOf(s) == SetSum(file.profit, Selected(s))

IsSolution(s) ==
    /\ Len(s) = Len(file.profit)
    /\ \A i \in 1..Len(s) : s[i] \in {0, 1}

FeasibleSolution(s) == IsSolution(s) /\ WeightOf(s) <= file.capacity

\* ------------------------------------------------------------ claims
\* C1: the best solution run() holds is feasible in every reachable state,
\* and so in the state run() returns from: the weights of the items it
\* selects sum to at most the capacity.
C1_BestSolutionFeasible ==
    InitialSolutionBuilt => FeasibleSolution(best_solution)

\* C1 witness: run() has returned a best solution found by the search (not
\* the greedy one) that fills the knapsack.
C1_Witness ==
    /\ pc = "returned"
    /\ Len(best_cost_vector) > 0
    /\ WeightOf(best_solution) = file.capacity
    /\ file.capacity > 0

\* C2: best_cost is the sum of the profits of the items best_solution
\* selects, and cost is that sum for the working solution, in every state.
C2_CostsMatchSolutions ==
    /\ SearchStateCreated => best_cost = ProfitOf(best_solution)
    /\ WorkingPointSet => cost = ProfitOf(solution)

\* C2 witness: run() has returned after the working point moved to a
\* candidate worse than the best and the best itself was improved.
C2_Witness ==
    /\ pc = "returned"
    /\ Len(best_cost_vector) > 0
    /\ cost < best_cost
    /\ solution # best_solution

\* C3: the costs of the improvement trace are strictly increasing in the
\* order recorded, and each is above the cost of the greedy initial solution.
C3_TraceStrictlyIncreasing ==
    /\ \A i, j \in 1..Len(best_cost_vector) :
           i < j => best_cost_vector[i] < best_cost_vector[j]
    /\ \A i \in 1..Len(best_cost_vector) :
           best_cost_vector[i] > ProfitOf(generate_initial_solution)

\* C3 witness: two improvements have been recorded.
C3_Witness == Len(best_cost_vector) >= 2

\* --------------------------------------------- the reference greedy
\* Item i is visited before item j: higher profit/weight ratio, or the same
\* ratio and a lower index (weights > 0).
VisitedBefore(i, j) ==
    LET pi == file.profit[i] * file.weight[j]
        pj == file.profit[j] * file.weight[i]
    IN  pi > pj \/ (pi = pj /\ i < j)

RECURSIVE ReferenceTakes(_)
\* Item i is selected iff its weight, added to the weight of the selected
\* items visited before it, stays within the capacity.
ReferenceTakes(i) ==
    LET before == {j \in 1..Len(file.profit) : VisitedBefore(j, i)}
        taken == {j \in before : ReferenceTakes(j)}
    IN  SetSum(file.weight, taken) + file.weight[i] <= file.capacity

ReferenceGreedy ==
    [i \in 1..Len(file.profit) |-> IF ReferenceTakes(i) THEN 1 ELSE 0]

\* C8 (as claimed): for every instance with non-negative profits and
\* weights, weight 0 included, generate_initial_solution completes without
\* error and returns a feasible solution of length n.
C8_ConstructorTotal ==
    pc \notin {"read_file", "generate_initial_solution"} =>
        err = "none" /\ FeasibleSolution(best_solution)

\* Where the constructor does return, what it returns is feasible.
C8_FeasibleWhenReturned ==
    pc = "initial_temperature" => FeasibleSolution(best_solution)

NeighborCount(n) == IF (15 * n) \div 100 >= 1 THEN (15 * n) \div 100 ELSE 1

\* C4 (as claimed): for any instance and any feasible input solution,
\* generate_neighbors returns, and returns exactly max(1, floor(0.15 n))
\* solutions, each of length n and feasible.
C4_NeighborsAlwaysReturned ==
    /\ pc # "raised"
    /\ pc = "gen_returned" =>
          /\ Len(nbs) = NeighborCount(Len(file.profit))
          /\ \A k \in 1..Len(nbs) : FeasibleSolution(nbs[k])

\* Where generate_neighbors does return (n >= 1), it returns exactly
\* max(1, floor(0.15 n)) feasible solutions of length n.
C4_ReturnedNeighborsFeasible ==
    pc = "gen_returned" =>
        /\ Len(file.profit) >= 1
        /\ Len(nbs) = NeighborCount(Len(file.profit))
        /\ \A k \in 1..Len(nbs) : FeasibleSolution(nbs[k])

\* generate_neighbors returned two neighbors, one of them repaired.
C4_TwoNeighborsReached ==
    /\ pc = "gen_returned"
    /\ Len(nbs) = 2
    /\ removals > 0

\* C5 (as claimed): on an instance without items run() raises nothing, never
\* calls the random module, and returns ([], 0).
C5_EmptyInstanceReturns ==
    Len(file.profit) = 0 =>
        /\ err = "none"
        /\ ~rng_used
        /\ pc = "returned" => Len(best_solution) = 0 /\ best_cost = 0

\* The configurations C6 calls invalid.
InvalidConfig(c) ==
    c.cooling_rate <= 0 \/ c.T_min <= 0 \/ c.no_improve_limit <= 0

\* C6 (as claimed): with cooling_rate <= 0, T_min <= 0 or
\* no_improve_limit <= 0 the run fails with a configuration error before
\* any solution is generated: no initial solution, no call of
\* generate_neighbors, no search state.
C6_InvalidConfigRejected ==
    InvalidConfig(cfg) =>
        /\ ~InitialSolutionBuilt
        /\ caller = NoCaller
        /\ ~SearchStateCreated
        /\ pc = "raised" => err = "ConfigurationError"

\* C7 (as claimed): with a valid configuration and a valid instance run()
\* eventually returns, whatever the random choices.
C7_RunTerminates == <>(pc = "returned")

\* The temperature of a pass that has started has stopped moving above
\* T_min: cooling returns its argument.
C7_TemperatureStalls ==
    /\ pc = "cooling"
    /\ temperature > cfg.T_min
    /\ cooling(temperature, cfg.cooling_rate) = temperature

\* ----------------------------------------------------------------- C10
\* C10: check_acceptance returns True without a draw whenever
\* new_cost > cost; for new_cost <= cost (temperature > 0) it makes one draw
\* u and returns True iff u < exp((new_cost - cost) / T): the draw 0.0 is
\* below every exp that does not underflow, the draw exp(-j/2) iff
\* (cost - new_cost) / T < j/2; so an equal cost is always accepted.  An
\* accepted candidate becomes the working point.
C10_AcceptanceCriterion ==
    chk.called =>
        /\ chk.new_cost > chk.cost =>
              chk.result = "True" /\ ~chk.drew
        /\ chk.new_cost <= chk.cost /\ chk.temperature > 0 =>
              /\ chk.drew
              /\ chk.result \in {"True", "False"}
              /\ chk.result = "True" <=>
                   IF chk.u = 0
                   THEN (chk.cost - chk.new_cost) * Scale
                            <= ExpUnderflow * chk.temperature
                   ELSE 2 * (chk.cost - chk.new_cost) * Scale
                            < chk.u * chk.temperature
        /\ chk.new_cost = chk.cost /\ chk.temperature > 0 =>
              chk.result = "True"
        /\ chk.result = "True" =>
              solution = neighbors[idx - 1] /\ cost = chk.new_cost

\* C10 witness: an equal-cost candidate was accepted on the largest draw.
C10_Witness ==
    /\ chk.called
    /\ chk.new_cost = chk.cost
    /\ chk.drew
    /\ chk.u = MaxDraw
    /\ chk.result = "True"

\* A strictly better candidate was accepted without a draw, and a worse one
\* was rejected on a draw.
C10_ImprovementReached ==
    chk.called /\ chk.new_cost > chk.cost /\ chk.result = "True"

C10_RejectionReached ==
    chk.called /\ chk.new_cost < chk.cost /\ chk.result = "False"

\* ----------------------------------------------------------------- C12
\* C12 (as claimed): when cooling() is applied to a temperature T > 0 with
\* cooling_rate > 0, the new temperature T' satisfies 0 < T' < T.
C12_CoolingStrictlyDecreases ==
    pc = "cooling" /\ temperature > 0 /\ cfg.cooling_rate > 0 =>
        /\ cooling(temperature, cfg.cooling_rate) < temperature
        /\ cooling(temperature, cfg.cooling_rate) > 0

\* What cooling() does guarantee: 0 <= T' <= T.
C12_CoolingNonIncreasing ==
    pc = "cooling" /\ temperature >= 0 /\ cfg.cooling_rate >= 0 =>
        /\ cooling(temperature, cfg.cooling_rate) <= temperature
        /\ cooling(temperature, cfg.cooling_rate) >= 0

\* cooling() is about to turn a positive temperature into 0.
C12_TemperatureUnderflows ==
    /\ pc = "cooling"
    /\ temperature > 0
    /\ cfg.cooling_rate > 0
    /\ cooling(temperature, cfg.cooling_rate) = 0

\* ----------------------------------------------------------------- C13
\* C13: no_improve_count starts at 0; a step that accepts a candidate sets
\* it to 0 when the candidate's cost is above best_cost and adds exactly 1
\* otherwise; every other step (a rejection, cooling, the start of a new
\* outer pass, neighbor generation) leaves it unchanged.
C13_NoImproveCount ==
    [][/\ ~SearchStateCreated /\ SearchStateCreated' => no_improve_count' = 0
       /\ SearchStateCreated /\ SearchStateCreated' =>
            IF chk'.called /\ chk'.result = "True"
            THEN IF chk'.new_cost > best_cost
                 THEN no_improve_count' = 0
                 ELSE no_improve_count' = no_improve_count + 1
            ELSE no_improve_count' = no_improve_count]_vars

\* C13 witness: within one inner iteration (two neighbors) the counter was
\* advanced twice, the second time by an accepted candidate of equal cost.
C13_Witness ==
    /\ pc = "for_neighbor"
    /\ idx = 3
    /\ chk.called /\ chk.result = "True" /\ chk.new_cost <= best_cost
    /\ no_improve_count = 2
    /\ iter = 0

\* An accepted improvement has put the counter back to 0 in a later pass.
C13_ResetReached ==
    /\ chk.called /\ chk.result = "True"
    /\ no_improve_count = 0
    /\ Len(best_cost_vector) >= 2

\* ----------------------------------------------------------------- C14
\* C14: run() returns only from the test at the top of the outer loop, and
\* then temperature <= T_min or no_improve_count >= no_improve_limit; when
\* the test finds temperature > T_min and no_improve_count <
\* no_improve_limit, a new outer pass starts at its first inner iteration.
C14_ReturnOnlyAtLoopTest ==
    [][/\ pc # "returned" /\ pc' = "returned" =>
            /\ pc = "while"
            /\ \/ temperature <= cfg.T_min
               \/ no_improve_count >= cfg.no_improve_limit
            /\ UNCHANGED <<temperature, no_improve_count, best_solution,
                           best_cost>>
       /\ /\ pc = "while"
          /\ temperature > cfg.T_min
          /\ no_improve_count < cfg.no_improve_limit
          => pc' = "for_iter" /\ iter' = 0]_vars

\* C14 witness: run() has returned because the counter reached its limit
\* while the temperature was still above T_min.
C14_Witness ==
    /\ pc = "returned"
    /\ cfg = DefaultConfig
    /\ temperature > cfg.T_min
    /\ no_improve_count >= cfg.no_improve_limit

\* run() has returned because the temperature fell to T_min with the
\* counter below its limit, after an improvement.
C14_ReturnedCold ==
    /\ pc = "returned"
    /\ cfg = DefaultConfig
    /\ temperature <= cfg.T_min
    /\ no_improve_count < cfg.no_improve_limit
    /\ Len(best_cost_vector) > 0

\* ----------------------------------------------------------------- C15
\* C15 (as claimed): with a valid configuration the temperature is > 0 at
\* every call of check_acceptance, and the call never divides by zero.
C15_TemperaturePositiveAtCheck ==
    ValidConfig(cfg) /\ chk.called =>
        /\ chk.temperature > 0
        /\ chk.result # "ZeroDivisionError"

\* An initial temperature of 0 makes the first loop test fail: run() returns
\* without a call of check_acceptance.
C15_ZeroStartReturns ==
    [][pc = "while" /\ temperature = 0 /\ ValidConfig(cfg) =>
           pc' = "returned" /\ ~chk'.called]_vars

\* run() has returned from an initial temperature of 0 without any pass.
C15_ZeroStartReached ==
    /\ pc = "returned"
    /\ ValidConfig(cfg)
    /\ temperature = 0
    /\ iter = NoNumber

\* ----------------------------------------------------------------- C16
\* C16: the step that starts an outer pass sets the working solution and
\* cost to best_solution and best_cost, whatever the previous pass ended on;
\* every call of check_acceptance compares the candidate with the working
\* cost.
C16_PassRestartsFromBest ==
    [][/\ pc = "while" /\ pc' = "for_iter" =>
            solution' = best_solution /\ cost' = best_cost
       /\ chk'.called =>
            /\ chk'.cost = cost
            /\ chk'.new_cost = ProfitOf(neighbors[idx])]_vars

\* C16 witness: a second pass has started from the best solution although
\* the first pass ended on a different, worse working solution.
C16_Witness ==
    /\ pc = "for_iter"
    /\ iter = 0
    /\ solution = best_solution
    /\ cost = best_cost
    /\ Len(neighbors) > 0
    /\ \E k \in 1..Len(neighbors) :
          /\ neighbors[k] # best_solution
          /\ ProfitOf(neighbors[k]) < best_cost
    /\ no_improve_count > 0

\* A candidate below best_cost was accepted without a draw: it was above
\* the working cost.
C16_ComparedWithWorkingCost ==
    /\ chk.called /\ chk.result = "True" /\ ~chk.drew
    /\ chk.new_cost > chk.cost
    /\ chk.new_cost < best_cost

\* The loop test is about to start a new pass while the working point is
\* below the best.
C16_WorkingPointLeftBehind ==
    /\ pc = "while"
    /\ cost # NoNumber
    /\ cost < best_cost
    /\ temperature > cfg.T_min
    /\ no_improve_count < cfg.no_improve_limit

\* ----------------------------------------------------------------- C17
\* Once set, the temperature changes only by the cooling step, taken once
\* per inner iteration after all neighbors_amount neighbors were processed;
\* a pass goes back to the loop test only after iter_max cooling steps.
C17_NoEarlyExit ==
    [][/\ SearchStateCreated /\ temperature' # temperature => pc = "cooling"
       /\ SearchStateCreated /\ iter' # iter /\ iter' # 0 => pc = "cooling"
       /\ pc = "cooling" =>
            /\ Len(neighbors) = neighbors_amount
            /\ idx = Len(neighbors) + 1
            /\ iter' = iter + 1
            /\ temperature' = cooling(temperature, cfg.cooling_rate)
       /\ pc = "for_iter" /\ pc' = "while" => iter = cfg.iter_max
       /\ pc = "for_iter" /\ pc' = "gen_for" => iter < cfg.iter_max]_vars

\* C17 (as claimed): as C17_NoEarlyExit, and every outer pass that was
\* started applies exactly iter_max cooling steps: whenever run() is not
\* inside a pass, the last pass started has counted iter_max of them.
C17_CoolingOncePerIteration ==
    [][/\ SearchStateCreated /\ temperature' # temperature => pc = "cooling"
       /\ SearchStateCreated /\ iter' # iter /\ iter' # 0 => pc = "cooling"
       /\ pc = "cooling" =>
            /\ Len(neighbors) = neighbors_amount
            /\ idx = Len(neighbors) + 1
            /\ iter' = iter + 1
       /\ pc = "for_iter" /\ pc' = "while" => iter = cfg.iter_max
       /\ pc' \in {"while", "returned", "raised"} /\ iter' # NoNumber =>
            iter' = cfg.iter_max]_vars

\* A pass went on to its last cooling step although no_improve_count had
\* passed no_improve_limit inside it.
C17_PassCompletedOverLimit ==
    /\ pc = "while"
    /\ cfg = DefaultConfig
    /\ iter = cfg.iter_max
    /\ no_improve_count > cfg.no_improve_limit

\* ----------------------------------------------------------------- C18
\* C18: the repair loop of one neighbor takes at most n removal steps, for
\* any input solution and any random choices: each step of the loop clears
\* one selected item and selects none, and the loop ends (the neighbor is
\* appended) as soon as the weight is within the capacity or nothing is
\* selected.
C18_RepairBounded ==
    [][/\ pc' = "gen_while" => removals' <= Len(arg)
       /\ pc = "gen_while" /\ pc' = "gen_while" =>
            /\ removals' = removals + 1
            /\ \E i \in Selected(neighbor) :
                  neighbor' = [neighbor EXCEPT ![i] = 0]
       /\ /\ pc = "gen_while"
          /\ WeightOf(neighbor) <= file.capacity \/ Selected(neighbor) = {}
          => pc' = "gen_for" /\ nbs' = Append(nbs, neighbor)]_vars

\* C18 witness: a neighbor of n >= 2 items was appended after n removals.
C18_Witness ==
    /\ pc = "gen_for"
    /\ Len(nbs) > 0
    /\ Len(arg) >= 2
    /\ removals = Len(arg)

\* ----------------------------------------------------------------- C19
\* C19: best_cost never decreases from one step of run() to the next, and it
\* is never below the cost of the greedy initial solution, in particular
\* when run() returns.
C19_BestCostNeverDecreases ==
    [][/\ SearchStateCreated /\ SearchStateCreated' => best_cost' >= best_cost
       /\ SearchStateCreated' =>
            best_cost' >= ProfitOf(generate_initial_solution)]_vars

\* C19 witness: run() has returned an improved best although the working
\* point had moved below the cost of the greedy solution.
C19_Witness ==
    /\ pc = "returned"
    /\ cost # NoNumber
    /\ cost < ProfitOf(generate_initial_solution)
    /\ best_cost > ProfitOf(generate_initial_solution)

\* ----------------------------------------------------------------- C20
\* C20: no step of generate_neighbors changes its input list; best_solution
\* changes only by the step that accepts an improvement, which binds it to
\* the accepted neighbor; an entry of the improvement trace never changes
\* once appended, and its cost stays the one recorded with it.
C20_StoredSolutionsUnchanged ==
    [][/\ pc \in {"gen_for", "gen_while"} => arg' = arg
       /\ pc \in {"gen_for", "gen_while"} /\ caller = "run" =>
            solution' = solution
       /\ InitialSolutionBuilt /\ best_solution' # best_solution =>
            /\ pc = "for_neighbor"
            /\ chk'.called /\ chk'.result = "True"
            /\ chk'.new_cost > best_cost
            /\ best_solution' = neighbors[idx]
            /\ best_solutions_vector' =
                   Append(best_solutions_vector, neighbors[idx])
       /\ Len(best_solutions_vector') >= Len(best_solutions_vector)
       /\ \A k \in 1..Len(best_solutions_vector) :
             best_solutions_vector'[k] = best_solutions_vector[k]
       /\ Len(best_cost_vector') = Len(best_solutions_vector')
       /\ \A k \in 1..Len(best_solutions_vector') :
             best_cost_vector'[k] = ProfitOf(best_solutions_vector'[k])]_vars

\* C20 witness: generate_neighbors, called by run() on the list that is
\* also best_solution and the last entry of the trace, has flipped and
\* repaired a neighbor of it.
C20_Witness ==
    /\ pc = "gen_while"
    /\ caller = "run"
    /\ removals > 0
    /\ neighbor # arg
    /\ Len(best_solutions_vector) > 0
    /\ arg = best_solution
    /\ best_solutions_vector[Len(best_solutions_vector)] = arg
    /\ iter > 0

====
